---- MODULE Spec2Model ----
(***************************************************************************)
(* Model of the swap service's HTTP handlers in src/routes/uniswap.py:     *)
(* the fee-tier quote fallback of get_quote and the nonce / gas / sign /   *)
(* broadcast pipeline of approve_token and swap_token, against a chain     *)
(* whose RPC calls may fail independently.                                 *)
(***************************************************************************)
EXTENDS Integers, Sequences, FiniteSets, TLC

(***************************************************************************)
(* JSON values.  A field of the request body is missing, null, a number    *)
(* or a string; strings are identified by a number, 0 being the empty      *)
(* string.  Python's truth test (`not x`) is false for None, 0 and "".     *)
(***************************************************************************)
Missing == [t |-> "missing", v |-> 0]
PyNone == [t |-> "none", v |-> 0]
Num(n) == [t |-> "num", v |-> n]
Str(n) == [t |-> "str", v |-> n]

\* dict.get(key, default): the default is used only when the key is absent
Get(data, k, default) == IF data[k].t = "missing" THEN default ELSE data[k]

\* Python truthiness of a JSON value
Truthy(x) == x.t \notin {"missing", "none"} /\ x.v # 0

\* bounds of the model
MaxAmount == 2
MaxMined == 2
NumProcs == 2
NumAccounts == 2
NumPools == 2
MaxServed == 2

\* program constants
DEFAULT_FEE == 10000
FALLBACK_1 == 10000
FALLBACK_2 == 500
FALLBACK_3 == 100
FALLBACK_4 == 2500
WEI_DECIMALS == 18
MOCK_DEFAULT_FEE == 3000

\* int(amount * (10 ** 18)), kept as mantissa and decimal exponent
ToWei(x) == [mant |-> x.v, exp |-> WEI_DECIMALS]

\* fee tiers a caller may name: the four PancakeSwap tiers and Uniswap's 3000
RequestableFees == {100, 500, 2500, 3000, 10000}

QuoteAmounts == {Missing, PyNone} \cup {Num(n) : n \in -1..MaxAmount}
QuoteFees == {Missing, PyNone} \cup {Num(f) : f \in RequestableFees}
QuoteRequests == [amount_in : QuoteAmounts, fee : QuoteFees]

NoResponse == [status |-> 0, kind |-> "none"]

\* handler threads of the server and accounts of the chain
Procs == 1..NumProcs
Accounts == 1..NumAccounts

\* a string is an address (resp. a private key) of the chain when it names an
\* account; Str(NumAccounts + 1) is a non-empty string that names none
ValidAddress(x) == x.t = "str" /\ x.v \in Accounts
ValidKey(x) == x.t = "str" /\ x.v \in Accounts
KeyInputs == {Missing, PyNone} \cup {Str(k) : k \in 0..(NumAccounts + 1)}
AddressInputs == {Missing, PyNone} \cup {Str(a) : a \in 0..(NumAccounts + 1)}
WriteAmounts == {Missing, PyNone, Num(0), Num(1)}
WriteFees == {Missing, PyNone, Num(0), Num(2500)}
NoData ==
    [private_key |-> Missing, account_address |-> Missing, amount |-> Missing,
     amount_in |-> Missing, amount_out_min |-> Missing,
     amount_out_minimum |-> Missing, fee |-> Missing]
ApproveRequests ==
    {[NoData EXCEPT !.private_key = k, !.account_address = a, !.amount = m] :
        k \in KeyInputs, a \in AddressInputs, m \in WriteAmounts}
SwapRequests ==
    {[NoData EXCEPT !.private_key = k, !.account_address = a, !.amount_in = m,
                    !.amount_out_min = o, !.fee = f] :
        k \in KeyInputs, a \in AddressInputs, m \in WriteAmounts,
        o \in WriteAmounts, f \in WriteFees}
\* well-formed requests of an account that signs with its own key
OwnApproveRequests ==
    {[NoData EXCEPT !.private_key = Str(a), !.account_address = Str(a),
                    !.amount = Num(1)] : a \in Accounts}
OwnSwapRequests ==
    {[NoData EXCEPT !.private_key = Str(a), !.account_address = Str(a),
                    !.amount_in = Num(1), !.amount_out_min = Num(1),
                    !.fee = Num(2500)] : a \in Accounts}

\* what ROUTER_ABI (UniversalRouter_abi.json) may declare: the direct
\* exactInputSingle entry point, or only the command-encoded execute
RouterAbis == {"direct", "command"}

VARIABLES
    q_pc,        \* position of the quote handler
    q_data,      \* request body of the quote in progress
    q_fee,       \* local `fee`
    q_tiers,     \* local `fee_tiers_to_try`
    q_idx,       \* position of the for loop in fee_tiers_to_try
    q_rpc,       \* number of calls made to the RPC endpoint in this request
    q_trace,     \* calls made to the RPC endpoint, <<[step, ok]>> in order
    q_attempts,  \* quoter read calls made: <<[fee, ok]>> in call order
    q_conn,      \* value computed for "web3_connected" in the failure body
    q_resp,      \* response of the request
    router_abi,  \* convention declared by the loaded ROUTER_ABI
    c_mined,     \* per account: transactions included in the latest block
    c_pool,      \* transactions the node accepted and has not yet included
    w_pc,        \* per thread: position of the approve / swap handler
    w_op,        \* per thread: "approve", "swap" or "none"
    w_data,      \* per thread: request body
    w_nonce,     \* per thread: local `nonce` (-1 before it is fetched)
    w_rpc,       \* per thread: calls made to the RPC endpoint in this request
    w_signed,    \* per thread: sign_transaction returned a signed object
    w_sent,      \* per thread: "no", or the node's answer to the broadcast
    w_prior,     \* per thread: requests already answered 200 when it arrived
    w_resp,      \* per thread: response of the request
    w_attrs,     \* per thread: attribute names the signed object exposes
    w_raw,       \* per thread: local `raw_transaction`
    w_trace,     \* per thread: steps taken, <<[step, ok]>> in order
    w_log,       \* per thread: what the request's log entries show
    w_out,       \* per thread: what the response body shows
    r_pc,        \* position of the token-info / pool-info handler
    r_op,        \* "token", "pool" or "none"
    r_idx,       \* position in the list of read calls or of fee tiers
    r_trace,     \* calls made to the RPC endpoint, <<[step, ok]>> in order
    r_lookups,   \* pool-info: the registry's answers, <<[fee, address]>>
    r_pools,     \* pool-info: local `found_pools`
    r_resp,      \* response of the request
    served,      \* quote and token/pool requests answered so far
    m_resp       \* response of the mock application's swap handler

qvars == <<q_pc, q_data, q_fee, q_tiers, q_idx, q_rpc, q_trace, q_attempts, q_conn, q_resp>>
cvars == <<c_mined, c_pool>>
rvars == <<r_pc, r_op, r_idx, r_trace, r_lookups, r_pools, r_resp>>
wvars == <<w_pc, w_op, w_data, w_nonce, w_rpc, w_signed, w_sent, w_prior, w_resp,
           w_attrs, w_raw, w_trace, w_log, w_out>>

\* read-only requests served so far, and the mock application's response
ovars == <<served, m_resp>>

vars == <<q_pc, q_data, q_fee, q_tiers, q_idx, q_rpc, q_trace, q_attempts, q_conn, q_resp,
          router_abi, c_mined, c_pool,
          w_pc, w_op, w_data, w_nonce, w_rpc, w_signed, w_sent, w_prior, w_resp,
          w_attrs, w_raw, w_trace, w_log, w_out,
          r_pc, r_op, r_idx, r_trace, r_lookups, r_pools, r_resp,
          served, m_resp>>

QuoteInit ==
    /\ q_pc = "idle"
    /\ q_data = [amount_in |-> Missing, fee |-> Missing]
    /\ q_fee = Missing
    /\ q_tiers = <<>>
    /\ q_idx = 0
    /\ q_rpc = 0
    /\ q_trace = <<>>
    /\ q_attempts = <<>>
    /\ q_conn = FALSE
    /\ q_resp = NoResponse

WriteInit ==
    /\ router_abi \in RouterAbis
    /\ c_mined = [a \in Accounts |-> 0]
    /\ c_pool = {}
    /\ w_pc = [p \in Procs |-> "idle"]
    /\ w_op = [p \in Procs |-> "none"]
    /\ w_data = [p \in Procs |-> NoData]
    /\ w_nonce = [p \in Procs |-> -1]
    /\ w_rpc = [p \in Procs |-> 0]
    /\ w_signed = [p \in Procs |-> FALSE]
    /\ w_sent = [p \in Procs |-> "no"]
    /\ w_prior = [p \in Procs |-> {}]
    /\ w_resp = [p \in Procs |-> NoResponse]
    /\ w_attrs = [p \in Procs |-> {}]
    /\ w_raw = [p \in Procs |-> [from |-> 0, nonce |-> -1, op |-> "none"]]
    /\ w_trace = [p \in Procs |-> <<>>]
    /\ w_log = [p \in Procs |-> {}]
    /\ w_out = [p \in Procs |-> {}]

ReadInit ==
    /\ r_pc = "idle"
    /\ r_op = "none"
    /\ r_idx = 0
    /\ r_trace = <<>>
    /\ r_lookups = <<>>
    /\ r_pools = <<>>
    /\ r_resp = NoResponse

OtherInit ==
    /\ served = [quote |-> 0, read |-> 0]
    /\ m_resp = NoResponse

Init == QuoteInit /\ WriteInit /\ ReadInit /\ OtherInit

(***************************************************************************)
(* get_quote                                                               *)
(***************************************************************************)

\* the outer `except Exception` of get_quote: 500 with str(e)
QuoteUnexpected == [status |-> 500, kind |-> "unexpected"]

QuoteRespond(r) ==
    /\ q_resp' = r
    /\ q_pc' = "done"

\* a quote request arrives
QuoteStart(data) ==
    /\ UNCHANGED <<ovars, rvars, router_abi, cvars, wvars>>
    /\ q_pc = "idle"
    /\ q_data' = data
    /\ q_pc' = "env_log"
    /\ q_fee' = Missing
    /\ q_tiers' = <<>>
    /\ q_idx' = 0
    /\ q_rpc' = 0
    /\ q_trace' = <<>>
    /\ q_attempts' = <<>>
    /\ q_conn' = FALSE
    /\ q_resp' = NoResponse

\* logger.info(f"... {w3.is_connected()}"): the result is only logged
QuoteEnvLog(connected) ==
    /\ UNCHANGED <<ovars, rvars, router_abi, cvars, wvars>>
    /\ q_pc = "env_log"
    /\ q_rpc' = q_rpc + 1
    /\ q_trace' = Append(q_trace, [step |-> "is_connected", ok |-> connected])
    /\ q_pc' = "env_check"
    /\ UNCHANGED <<q_data, q_fee, q_tiers, q_idx, q_attempts, q_conn, q_resp>>

\* if w3.is_connected():
QuoteEnvCheck(connected) ==
    /\ UNCHANGED <<ovars, rvars, router_abi, cvars, wvars>>
    /\ q_pc = "env_check"
    /\ q_rpc' = q_rpc + 1
    /\ q_trace' = Append(q_trace, [step |-> "is_connected", ok |-> connected])
    /\ q_pc' = IF connected THEN "env_chain" ELSE "validate"
    /\ UNCHANGED <<q_data, q_fee, q_tiers, q_idx, q_attempts, q_conn, q_resp>>

\* logger.info(f"Chain ID: {w3.eth.chain_id}")
QuoteEnvChainId(ok) ==
    /\ UNCHANGED <<ovars, rvars, router_abi, cvars, wvars>>
    /\ q_pc = "env_chain"
    /\ q_rpc' = q_rpc + 1
    /\ q_trace' = Append(q_trace, [step |-> "chain_id", ok |-> ok])
    /\ IF ok
         THEN q_pc' = "env_block" /\ UNCHANGED q_resp
         ELSE QuoteRespond(QuoteUnexpected)
    /\ UNCHANGED <<q_data, q_fee, q_tiers, q_idx, q_attempts, q_conn>>

\* logger.info(f"Latest block: {w3.eth.block_number}")
QuoteEnvBlock(ok) ==
    /\ UNCHANGED <<ovars, rvars, router_abi, cvars, wvars>>
    /\ q_pc = "env_block"
    /\ q_rpc' = q_rpc + 1
    /\ q_trace' = Append(q_trace, [step |-> "block_number", ok |-> ok])
    /\ IF ok
         THEN q_pc' = "validate" /\ UNCHANGED q_resp
         ELSE QuoteRespond(QuoteUnexpected)
    /\ UNCHANGED <<q_data, q_fee, q_tiers, q_idx, q_attempts, q_conn>>

\* data.get("fee", 10000)
QuoteFeeOf(data) == Get(data, "fee", Num(DEFAULT_FEE))

\* if not amount_in: ... 400
QuoteRejects(data) == ~Truthy(Get(data, "amount_in", PyNone))

\* reading the body and validating it
QuoteValidate ==
    /\ UNCHANGED <<ovars, rvars, router_abi, cvars, wvars>>
    /\ q_pc = "validate"
    /\ q_fee' = QuoteFeeOf(q_data)
    /\ IF QuoteRejects(q_data)
         THEN QuoteRespond([status |-> 400, kind |-> "validation"])
         ELSE q_pc' = "connect" /\ UNCHANGED q_resp
    /\ UNCHANGED <<q_data, q_tiers, q_idx, q_rpc, q_trace, q_attempts, q_conn>>

\* [fee, 10000, 500, 100, 2500]
FeeTiersToTry(fee) ==
    <<fee, Num(FALLBACK_1), Num(FALLBACK_2), Num(FALLBACK_3), Num(FALLBACK_4)>>

\* if not w3.is_connected(): ... 500; otherwise the candidate list is built
QuoteConnect(connected) ==
    /\ UNCHANGED <<ovars, rvars, router_abi, cvars, wvars>>
    /\ q_pc = "connect"
    /\ q_rpc' = q_rpc + 1
    /\ q_trace' = Append(q_trace, [step |-> "connect", ok |-> connected])
    /\ IF connected
         THEN /\ q_tiers' = FeeTiersToTry(q_fee)
              /\ q_idx' = 1
              /\ q_pc' = "net_test"
              /\ UNCHANGED q_resp
         ELSE /\ QuoteRespond([status |-> 500, kind |-> "connectivity"])
              /\ UNCHANGED <<q_tiers, q_idx>>
    /\ UNCHANGED <<q_data, q_fee, q_attempts, q_conn>>

\* test_block = w3.eth.block_number inside the loop body
QuoteNetTest(ok) ==
    /\ UNCHANGED <<ovars, rvars, router_abi, cvars, wvars>>
    /\ q_pc = "net_test"
    /\ q_rpc' = q_rpc + 1
    /\ q_trace' = Append(q_trace, [step |-> "block_number", ok |-> ok])
    /\ IF ok
         THEN q_pc' = "quoter_call" /\ UNCHANGED q_resp
         ELSE QuoteRespond([status |-> 500, kind |-> "network"])
    /\ UNCHANGED <<q_data, q_fee, q_tiers, q_idx, q_attempts, q_conn>>

\* the ABI encoder accepts the call only for an unsigned fee and amount
QuoterEncodable(try_fee, amount_in) ==
    /\ try_fee.t = "num" /\ try_fee.v >= 0
    /\ amount_in.t = "num" /\ ToWei(amount_in).mant >= 0

\* variant of QuoteSuccess whose note compares with the default tier
QuoteSuccessNoteByDefault(try_fee, fee, amount_in) ==
    [status |-> 200, kind |-> "quote", fee |-> try_fee,
     amount_in_wei |-> ToWei(amount_in),
     note |-> IF try_fee # Num(DEFAULT_FEE) THEN "fallback" ELSE "None"]

\* the success body: "fee": try_fee, "note": ... if try_fee != fee else None
QuoteSuccess(try_fee, fee, amount_in) ==
    [status |-> 200, kind |-> "quote", fee |-> try_fee,
     amount_in_wei |-> ToWei(amount_in),
     note |-> IF try_fee # fee THEN "fallback" ELSE "None"]

\* the body returned after the loop
QuoteNoLiquidity(tiers, connected) ==
    [status |-> 400, kind |-> "no_liquidity", fee_tiers_tried |-> tiers,
     web3_connected |-> connected]

\* variant of QuoteCall that keeps looking for a later tier after a success
QuoteCallKeepsLooking(ok) ==
    /\ UNCHANGED <<ovars, rvars, router_abi, cvars, wvars>>
    /\ q_pc = "quoter_call"
    /\ ok => QuoterEncodable(q_tiers[q_idx], q_data.amount_in)
    /\ q_rpc' = q_rpc + 1
    /\ q_trace' = Append(q_trace, [step |-> "quote", ok |-> ok])
    /\ q_attempts' = Append(q_attempts, [fee |-> q_tiers[q_idx], ok |-> ok])
    /\ IF ok /\ q_idx = Len(q_tiers)
         THEN /\ QuoteRespond(QuoteSuccess(q_tiers[q_idx], q_fee, q_data.amount_in))
              /\ UNCHANGED q_idx
         ELSE /\ q_idx' = q_idx + 1
              /\ q_pc' = IF q_idx = Len(q_tiers) THEN "fail_conn" ELSE "net_test"
              /\ UNCHANGED q_resp
    /\ UNCHANGED <<q_data, q_fee, q_tiers, q_conn>>

\* quoter_contract.functions.quoteExactInputSingle(params).call()
QuoteCall(ok) ==
    /\ UNCHANGED <<ovars, rvars, router_abi, cvars, wvars>>
    /\ q_pc = "quoter_call"
    /\ ok => QuoterEncodable(q_tiers[q_idx], q_data.amount_in)
    /\ q_rpc' = q_rpc + 1
    /\ q_trace' = Append(q_trace, [step |-> "quote", ok |-> ok])
    /\ q_attempts' = Append(q_attempts, [fee |-> q_tiers[q_idx], ok |-> ok])
    /\ IF ok
         THEN /\ QuoteRespond(QuoteSuccess(q_tiers[q_idx], q_fee, q_data.amount_in))
              /\ UNCHANGED q_idx
         ELSE /\ q_idx' = q_idx + 1
              /\ q_pc' = IF q_idx = Len(q_tiers) THEN "fail_conn" ELSE "net_test"
              /\ UNCHANGED q_resp
    /\ UNCHANGED <<q_data, q_fee, q_tiers, q_conn>>

\* "web3_connected": w3.is_connected()
QuoteFailConnected(connected) ==
    /\ UNCHANGED <<ovars, rvars, router_abi, cvars, wvars>>
    /\ q_pc = "fail_conn"
    /\ q_rpc' = q_rpc + 1
    /\ q_trace' = Append(q_trace, [step |-> "is_connected", ok |-> connected])
    /\ q_conn' = connected
    /\ q_pc' = "fail_check"
    /\ UNCHANGED <<q_data, q_fee, q_tiers, q_idx, q_attempts, q_resp>>

\* "chain_id": ... if w3.is_connected() else None
QuoteFailCheck(connected) ==
    /\ UNCHANGED <<ovars, rvars, router_abi, cvars, wvars>>
    /\ q_pc = "fail_check"
    /\ q_rpc' = q_rpc + 1
    /\ q_trace' = Append(q_trace, [step |-> "is_connected", ok |-> connected])
    /\ IF connected
         THEN q_pc' = "fail_chain" /\ UNCHANGED q_resp
         ELSE QuoteRespond(QuoteNoLiquidity(q_tiers, q_conn))
    /\ UNCHANGED <<q_data, q_fee, q_tiers, q_idx, q_attempts, q_conn>>

\* variant of QuoteFailChainId without the outer `except`: a failing
\* chain_id read leaves the handler with no response built
QuoteFailChainIdUncaught(ok) ==
    /\ UNCHANGED <<ovars, rvars, router_abi, cvars, wvars>>
    /\ q_pc = "fail_chain"
    /\ q_rpc' = q_rpc + 1
    /\ q_trace' = Append(q_trace, [step |-> "chain_id", ok |-> ok])
    /\ IF ok
         THEN QuoteRespond(QuoteNoLiquidity(q_tiers, q_conn))
         ELSE q_pc' = "raised" /\ UNCHANGED q_resp
    /\ UNCHANGED <<q_data, q_fee, q_tiers, q_idx, q_attempts, q_conn>>

\* "chain_id": w3.eth.chain_id
QuoteFailChainId(ok) ==
    /\ UNCHANGED <<ovars, rvars, router_abi, cvars, wvars>>
    /\ q_pc = "fail_chain"
    /\ q_rpc' = q_rpc + 1
    /\ q_trace' = Append(q_trace, [step |-> "chain_id", ok |-> ok])
    /\ IF ok
         THEN QuoteRespond(QuoteNoLiquidity(q_tiers, q_conn))
         ELSE QuoteRespond(QuoteUnexpected)
    /\ UNCHANGED <<q_data, q_fee, q_tiers, q_idx, q_attempts, q_conn>>

QuoteNext ==
    \/ \E data \in QuoteRequests : QuoteStart(data)
    \/ \E b \in BOOLEAN : QuoteEnvLog(b)
    \/ \E b \in BOOLEAN : QuoteEnvCheck(b)
    \/ \E ok \in BOOLEAN : QuoteEnvChainId(ok)
    \/ \E ok \in BOOLEAN : QuoteEnvBlock(ok)
    \/ QuoteValidate
    \/ \E b \in BOOLEAN : QuoteConnect(b)
    \/ \E ok \in BOOLEAN : QuoteNetTest(ok)
    \/ \E ok \in BOOLEAN : QuoteCall(ok)
    \/ \E b \in BOOLEAN : QuoteFailConnected(b)
    \/ \E b \in BOOLEAN : QuoteFailCheck(b)
    \/ \E ok \in BOOLEAN : QuoteFailChainId(ok)

SpecQuote == Init /\ [][QuoteNext]_vars

(***************************************************************************)
(* The chain as the RPC endpoint shows it                                  *)
(***************************************************************************)

\* w3.eth.get_transaction_count(address): the count at the latest block
TransactionCount(mined, address) == mined[address.v]

\* the account a private key controls
SignerOf(key) == key.v

\* the node includes the next pending transaction of an account in a block
Mine(a) ==
    /\ c_mined[a] < MaxMined
    /\ \E tx \in c_pool : tx.from = a /\ tx.nonce = c_mined[a]
    /\ c_mined' = [c_mined EXCEPT ![a] = @ + 1]
    /\ c_pool' = {tx \in c_pool : ~(tx.from = a /\ tx.nonce = c_mined[a])}
    /\ UNCHANGED <<ovars, qvars, rvars, router_abi, wvars>>

(***************************************************************************)
(* approve_token and swap_token                                            *)
(***************************************************************************)

\* variant of ApproveRejects that does not test the amount
ApproveRejectsKeyAndAddress(d) ==
    \/ ~Truthy(Get(d, "private_key", PyNone))
    \/ ~Truthy(Get(d, "account_address", PyNone))

\* if not private_key or not account_address or not amount
ApproveRejects(d) ==
    \/ ~Truthy(Get(d, "private_key", PyNone))
    \/ ~Truthy(Get(d, "account_address", PyNone))
    \/ ~Truthy(Get(d, "amount", PyNone))

\* if not all([private_key, account_address, amount_in, amount_out_min, fee])
SwapRejects(d) ==
    ~(\A f \in {"private_key", "account_address", "amount_in",
                "amount_out_min", "fee"} : Truthy(Get(d, f, PyNone)))

WriteRejects(op, d) == IF op = "approve" THEN ApproveRejects(d) ELSE SwapRejects(d)

\* the `except Exception` of the handlers: 500 with str(e)
WriteUnexpected == [status |-> 500, kind |-> "unexpected"]

WriteRespond(p, r) ==
    /\ w_resp' = [w_resp EXCEPT ![p] = r]
    /\ w_pc' = [w_pc EXCEPT ![p] = "done"]

WriteGoto(p, pc) ==
    /\ w_pc' = [w_pc EXCEPT ![p] = pc]
    /\ UNCHANGED w_resp

\* one more call to the RPC endpoint
WriteRpc(p) == w_rpc' = [w_rpc EXCEPT ![p] = @ + 1]

\* variant of LoggedOnArrival that logs the whole request body
LoggedOnArrivalWholeBody(op) ==
    IF op = "approve"
      THEN {"private_key", "account_address", "amount"}
      ELSE {"private_key", "account_address", "amount_in", "amount_out_min", "fee"}

\* what the handler interpolates into its first log line (lines 292, 383)
LoggedOnArrival(op) ==
    IF op = "approve"
      THEN {"account_address", "amount"}
      ELSE {"account_address", "amount_in", "amount_out_min", "fee"}

\* what str(e) of an exception raised at a step shows: to_checksum_address
\* quotes the malformed address, sign_transaction reports the key's length,
\* an RPC failure carries the node's or the transport's message
ErrorText(step) ==
    CASE step = "checksum" -> {"account_address"}
      [] step = "sign" -> {"key_length"}
      [] step = "router" -> {"function_name"}
      [] OTHER -> {"rpc_error"}

\* the fields of the success body (lines 354-361, 453-460)
SuccessBody(op) ==
    IF op = "approve"
      THEN {"tx_hash", "amount"}
      ELSE {"tx_hash", "amount_in", "amount_out_min", "fee"}

\* one more entry in the log of the request
WriteLog(p, items) == w_log' = [w_log EXCEPT ![p] = @ \cup items]

\* one more step taken by the request, with its outcome
WriteTrace(p, entries) == w_trace' = [w_trace EXCEPT ![p] = @ \o entries]

\* return jsonify(...): the response and what its body shows
WriteReply(p, r, items) ==
    /\ WriteRespond(p, r)
    /\ w_out' = [w_out EXCEPT ![p] = items]

\* the handler's except clause: logger.exception and 500 with str(e)
WriteRaise(p, step) ==
    /\ WriteReply(p, WriteUnexpected, ErrorText(step))
    /\ WriteLog(p, ErrorText(step))

\* the handler goes on to its next step
WriteContinue(p, pc) ==
    /\ WriteGoto(p, pc)
    /\ UNCHANGED w_out

\* an approve or swap request arrives at a free thread
WriteStart(p, op, data) ==
    /\ w_pc[p] = "idle"
    /\ w_op' = [w_op EXCEPT ![p] = op]
    /\ w_data' = [w_data EXCEPT ![p] = data]
    /\ w_prior' = [w_prior EXCEPT ![p] =
                     {q \in Procs : w_pc[q] = "done" /\ w_resp[q].status = 200}]
    /\ w_pc' = [w_pc EXCEPT ![p] = "validate"]
    /\ WriteLog(p, LoggedOnArrival(op))
    /\ UNCHANGED <<ovars, qvars, rvars, router_abi, cvars, w_nonce, w_rpc, w_signed, w_sent, w_resp,
                   w_attrs, w_raw, w_trace, w_out>>

\* the required-field test of the handler
WriteValidate(p) ==
    /\ w_pc[p] = "validate"
    /\ IF WriteRejects(w_op[p], w_data[p])
         THEN WriteReply(p, [status |-> 400, kind |-> "validation"], {})
         ELSE WriteContinue(p, "connect")
    /\ UNCHANGED <<ovars, qvars, rvars, router_abi, cvars, w_op, w_data, w_nonce, w_rpc,
                   w_signed, w_sent, w_prior, w_attrs, w_raw, w_trace, w_log>>

\* if not w3.is_connected(): 500; then the wei conversion and
\* w3.to_checksum_address(account_address), which raises on a malformed address
WriteConnect(p, connected) ==
    /\ w_pc[p] = "connect"
    /\ WriteRpc(p)
    /\ IF ~connected
         THEN /\ WriteReply(p, [status |-> 500, kind |-> "connectivity"], {})
              /\ WriteTrace(p, <<[step |-> "connect", ok |-> FALSE]>>)
              /\ UNCHANGED w_log
         ELSE IF ~ValidAddress(w_data[p].account_address)
                THEN /\ WriteRaise(p, "checksum")
                     /\ WriteTrace(p, <<[step |-> "connect", ok |-> TRUE],
                                        [step |-> "checksum", ok |-> FALSE]>>)
                ELSE /\ WriteContinue(p, "nonce")
                     /\ WriteTrace(p, <<[step |-> "connect", ok |-> TRUE],
                                        [step |-> "checksum", ok |-> TRUE]>>)
                     /\ WriteLog(p, IF w_op[p] = "approve" THEN {"amount"} ELSE {})
    /\ UNCHANGED <<ovars, qvars, rvars, router_abi, cvars, w_op, w_data, w_nonce,
                   w_signed, w_sent, w_prior, w_attrs, w_raw>>

\* nonce = w3.eth.get_transaction_count(account_address)
WriteNonce(p, ok) ==
    /\ w_pc[p] = "nonce"
    /\ WriteRpc(p)
    /\ WriteTrace(p, <<[step |-> "nonce", ok |-> ok]>>)
    /\ IF ok
         THEN /\ w_nonce' = [w_nonce EXCEPT ![p] =
                               TransactionCount(c_mined, w_data[p].account_address)]
              /\ WriteContinue(p, IF w_op[p] = "swap" THEN "router" ELSE "chain_id")
              /\ WriteLog(p, {"nonce"})
         ELSE /\ WriteRaise(p, "nonce")
              /\ UNCHANGED w_nonce
    /\ UNCHANGED <<ovars, qvars, rvars, router_abi, cvars, w_op, w_data, w_signed, w_sent, w_prior,
                   w_attrs, w_raw>>

\* variant of HasExactInputSingle for a contract object that resolves any name
HasExactInputSingleUnchecked(abi) == abi \in RouterAbis

\* router_contract.functions.exactInputSingle: the attribute lookup raises
\* when the contract's ABI does not declare the function
HasExactInputSingle(abi) == abi = "direct"

\* swap only: router_contract.functions.exactInputSingle(swap_params); the
\* swap parameters were logged at arrival and are logged again before it
WriteRouter(p) ==
    /\ w_pc[p] = "router"
    /\ WriteTrace(p, <<[step |-> "router", ok |-> HasExactInputSingle(router_abi)]>>)
    /\ IF HasExactInputSingle(router_abi)
         THEN /\ WriteContinue(p, "chain_id")
              /\ WriteLog(p, {"account_address", "amount_in", "amount_out_min", "fee"})
         ELSE /\ WriteReply(p, WriteUnexpected, ErrorText("router"))
              /\ WriteLog(p, ErrorText("router"))
    /\ UNCHANGED <<ovars, qvars, rvars, router_abi, cvars, w_op, w_data, w_nonce, w_rpc,
                   w_signed, w_sent, w_prior, w_attrs, w_raw>>

\* "chainId": w3.eth.chain_id
WriteChainId(p, ok) ==
    /\ w_pc[p] = "chain_id"
    /\ WriteRpc(p)
    /\ WriteTrace(p, <<[step |-> "chain_id", ok |-> ok]>>)
    /\ IF ok
         THEN WriteContinue(p, "gas_price") /\ UNCHANGED w_log
         ELSE WriteRaise(p, "chain_id")
    /\ UNCHANGED <<ovars, qvars, rvars, router_abi, cvars, w_op, w_data, w_nonce,
                   w_signed, w_sent, w_prior, w_attrs, w_raw>>

\* variant of WriteGasPrice that signs with a stale price when the fetch fails
WriteGasPriceOptional(p, ok) ==
    /\ w_pc[p] = "gas_price"
    /\ WriteRpc(p)
    /\ WriteTrace(p, <<[step |-> "gas_price", ok |-> ok]>>)
    /\ WriteContinue(p, "sign") /\ WriteLog(p, {"txn"})
    /\ UNCHANGED <<ovars, qvars, rvars, router_abi, cvars, w_op, w_data, w_nonce,
                   w_signed, w_sent, w_prior, w_attrs, w_raw>>

\* "gasPrice": w3.eth.gas_price, then build_transaction and the log of txn
WriteGasPrice(p, ok) ==
    /\ w_pc[p] = "gas_price"
    /\ WriteRpc(p)
    /\ WriteTrace(p, <<[step |-> "gas_price", ok |-> ok]>>)
    /\ IF ok
         THEN WriteContinue(p, "sign") /\ WriteLog(p, {"txn"})
         ELSE WriteRaise(p, "gas_price")
    /\ UNCHANGED <<ovars, qvars, rvars, router_abi, cvars, w_op, w_data, w_nonce,
                   w_signed, w_sent, w_prior, w_attrs, w_raw>>

\* the two attribute names the handlers look for on the signed object
RawAttrs == {"rawTransaction", "raw_transaction"}

\* variant of HasRaw that knows the older attribute name only
HasRawLegacyOnly(attrs) == "rawTransaction" \in attrs

\* hasattr(signed_txn, 'rawTransaction') / elif hasattr(signed_txn, 'raw_transaction')
HasRaw(attrs) == "rawTransaction" \in attrs \/ "raw_transaction" \in attrs

\* the transaction signed by the key's account, as the node will decode it
SignedTx(p) ==
    [from |-> SignerOf(w_data[p].private_key), nonce |-> w_nonce[p], op |-> w_op[p]]

\* w3.eth.account.sign_transaction(txn, private_key), which raises on a
\* malformed key, and the lookup of the raw bytes on the signed object
WriteSign(p, attrs) ==
    /\ w_pc[p] = "sign"
    /\ IF ~ValidKey(w_data[p].private_key)
         THEN /\ WriteRaise(p, "sign")
              /\ WriteTrace(p, <<[step |-> "sign", ok |-> FALSE]>>)
              /\ UNCHANGED <<w_signed, w_attrs, w_raw>>
         ELSE /\ w_signed' = [w_signed EXCEPT ![p] = TRUE]
              /\ w_attrs' = [w_attrs EXCEPT ![p] = attrs]
              /\ WriteTrace(p, <<[step |-> "sign", ok |-> TRUE],
                                 [step |-> "raw", ok |-> HasRaw(attrs)]>>)
              /\ IF HasRaw(attrs)
                   THEN /\ w_raw' = [w_raw EXCEPT ![p] = SignedTx(p)]
                        /\ WriteContinue(p, "broadcast")
                        /\ WriteLog(p, {"signed_type"})
                   ELSE /\ UNCHANGED w_raw
                        /\ WriteReply(p, [status |-> 500, kind |-> "signing_format"],
                                      {"signed_type", "signed_attrs"})
                        /\ WriteLog(p, {"signed_type", "signed_attrs"})
    /\ UNCHANGED <<ovars, qvars, rvars, router_abi, cvars, w_op, w_data, w_nonce, w_rpc,
                   w_sent, w_prior>>

\* a node never accepts a transaction whose nonce is already used in a block
NodeMayAccept(tx) == tx.nonce >= c_mined[tx.from]

\* variant of WriteBroadcast that starts over from the nonce fetch on rejection
WriteBroadcastRetries(p, accepted) ==
    /\ w_pc[p] = "broadcast"
    /\ accepted => NodeMayAccept(w_raw[p])
    /\ WriteRpc(p)
    /\ WriteTrace(p, <<[step |-> "broadcast", ok |-> accepted]>>)
    /\ IF accepted
         THEN /\ c_pool' = {tx \in c_pool : ~(tx.from = w_raw[p].from
                                               /\ tx.nonce = w_raw[p].nonce)}
                           \cup {w_raw[p]}
              /\ w_sent' = [w_sent EXCEPT ![p] = "accepted"]
              /\ WriteReply(p, [status |-> 200, kind |-> "sent"], SuccessBody(w_op[p]))
              /\ WriteLog(p, {"tx_hash"})
         ELSE /\ UNCHANGED c_pool
              /\ w_sent' = [w_sent EXCEPT ![p] = "rejected"]
              /\ WriteContinue(p, IF Len(w_trace[p]) < 12 THEN "nonce" ELSE "done")
              /\ UNCHANGED w_log
    /\ UNCHANGED <<ovars, qvars, rvars, router_abi, c_mined, w_op, w_data, w_nonce,
                   w_signed, w_prior, w_attrs, w_raw>>

\* tx_hash = w3.eth.send_raw_transaction(raw_transaction): the node accepts
\* the transaction (replacing a pending one of the same nonce) or rejects it
WriteBroadcast(p, accepted) ==
    /\ w_pc[p] = "broadcast"
    /\ accepted => NodeMayAccept(w_raw[p])
    /\ WriteRpc(p)
    /\ WriteTrace(p, <<[step |-> "broadcast", ok |-> accepted]>>)
    /\ IF accepted
         THEN /\ c_pool' = {tx \in c_pool : ~(tx.from = w_raw[p].from
                                               /\ tx.nonce = w_raw[p].nonce)}
                           \cup {w_raw[p]}
              /\ w_sent' = [w_sent EXCEPT ![p] = "accepted"]
              /\ WriteReply(p, [status |-> 200, kind |-> "sent"], SuccessBody(w_op[p]))
              /\ WriteLog(p, {"tx_hash"})
         ELSE /\ UNCHANGED c_pool
              /\ w_sent' = [w_sent EXCEPT ![p] = "rejected"]
              /\ WriteRaise(p, "broadcast")
    /\ UNCHANGED <<ovars, qvars, rvars, router_abi, c_mined, w_op, w_data, w_nonce,
                   w_signed, w_prior, w_attrs, w_raw>>

\* the steps of the handler running on thread p
WriteStep(p) ==
    \/ WriteValidate(p)
    \/ \E b \in BOOLEAN : WriteConnect(p, b)
    \/ \E ok \in BOOLEAN : WriteNonce(p, ok)
    \/ WriteRouter(p)
    \/ \E ok \in BOOLEAN : WriteChainId(p, ok)
    \/ \E ok \in BOOLEAN : WriteGasPrice(p, ok)
    \/ \E attrs \in SUBSET RawAttrs : WriteSign(p, attrs)
    \/ \E ok \in BOOLEAN : WriteBroadcast(p, ok)

\* one client: any approve or swap request, one at a time
WriteNext ==
    \/ \E data \in ApproveRequests : WriteStart(1, "approve", data)
    \/ \E data \in SwapRequests : WriteStart(1, "swap", data)
    \/ WriteStep(1)
    \/ \E a \in Accounts : Mine(a)

SpecWrite == Init /\ [][WriteNext]_vars

\* several clients: well-formed requests handled by concurrent threads
ConcNext ==
    \/ \E p \in Procs, data \in OwnApproveRequests : WriteStart(p, "approve", data)
    \/ \E p \in Procs, data \in OwnSwapRequests : WriteStart(p, "swap", data)
    \/ \E p \in Procs : WriteStep(p)
    \/ \E a \in Accounts : Mine(a)

SpecConc == Init /\ [][ConcNext]_vars

(***************************************************************************)
(* get_token_info and get_pool_info                                        *)
(***************************************************************************)

\* name(), symbol(), decimals(), totalSupply() in call order
TokenCalls == <<"name", "symbol", "decimals", "totalSupply">>

\* fee_tiers = [100, 500, 2500, 10000]
PoolFeeTiers == <<100, 500, 2500, 10000>>

\* addresses the pool registry may answer; 0 is the zero address.  The
\* factory stores a pool under both orderings of its two tokens, so the
\* answer for a tier is the same for (token, wbnb) and (wbnb, token)
PoolAddresses == 0..NumPools

\* the handlers' except clause: 500 with str(e)
ReadUnexpected == [status |-> 500, kind |-> "unexpected"]

ReadRespond(r) ==
    /\ r_resp' = r
    /\ r_pc' = "done"

\* a token-info or pool-info request arrives
ReadStart(op) ==
    /\ r_pc = "idle"
    /\ r_op' = op
    /\ r_pc' = "connect"
    /\ UNCHANGED <<ovars, qvars, router_abi, cvars, wvars, r_idx, r_trace, r_lookups,
                   r_pools, r_resp>>

\* variant of ReadConnect that goes on to the read calls when not connected
ReadConnectUnchecked(connected) ==
    /\ r_pc = "connect"
    /\ r_trace' = Append(r_trace, [step |-> "connect", ok |-> connected])
    /\ r_pc' = IF r_op = "token" THEN "token_call" ELSE "pool_lookup"
    /\ r_idx' = 1
    /\ UNCHANGED r_resp
    /\ UNCHANGED <<ovars, qvars, router_abi, cvars, wvars, r_op, r_lookups, r_pools>>

\* if not w3.is_connected(): ... 500
ReadConnect(connected) ==
    /\ r_pc = "connect"
    /\ r_trace' = Append(r_trace, [step |-> "connect", ok |-> connected])
    /\ IF connected
         THEN /\ r_pc' = IF r_op = "token" THEN "token_call" ELSE "pool_lookup"
              /\ r_idx' = 1
              /\ UNCHANGED r_resp
         ELSE /\ ReadRespond([status |-> 500, kind |-> "connectivity"])
              /\ UNCHANGED r_idx
    /\ UNCHANGED <<ovars, qvars, router_abi, cvars, wvars, r_op, r_lookups, r_pools>>

\* variant of TokenCall that sends each read as a transaction (transact
\* instead of call) from the node's first account
TokenCallTransacts(ok) ==
    /\ r_pc = "token_call"
    /\ r_trace' = Append(r_trace, [step |-> TokenCalls[r_idx], ok |-> ok])
    /\ IF ~ok
         THEN ReadRespond(ReadUnexpected) /\ UNCHANGED <<r_idx, c_pool>>
         ELSE /\ c_pool' = c_pool \cup {[from |-> 1, nonce |-> c_mined[1], op |-> "read"]}
              /\ IF r_idx = Len(TokenCalls)
                   THEN ReadRespond([status |-> 200, kind |-> "token"]) /\ UNCHANGED r_idx
                   ELSE r_idx' = r_idx + 1 /\ UNCHANGED <<r_pc, r_resp>>
    /\ UNCHANGED <<ovars, qvars, router_abi, c_mined, wvars, r_op, r_lookups, r_pools>>

\* token_contract.functions.<f>().call(), four times, then the body
TokenCall(ok) ==
    /\ r_pc = "token_call"
    /\ r_trace' = Append(r_trace, [step |-> TokenCalls[r_idx], ok |-> ok])
    /\ IF ~ok
         THEN ReadRespond(ReadUnexpected) /\ UNCHANGED r_idx
         ELSE IF r_idx = Len(TokenCalls)
                THEN ReadRespond([status |-> 200, kind |-> "token"]) /\ UNCHANGED r_idx
                ELSE r_idx' = r_idx + 1 /\ UNCHANGED <<r_pc, r_resp>>
    /\ UNCHANGED <<ovars, qvars, router_abi, cvars, wvars, r_op, r_lookups, r_pools>>

\* variant of FoundPools that records the pool once per token ordering
FoundPoolsBothOrderings(pools, fee, address) ==
    IF address # 0
      THEN pools \o <<[fee |-> fee, address |-> address],
                      [fee |-> fee, address |-> address]>>
      ELSE pools

\* if pool_address != "0x00...00": found_pools.append({...})
FoundPools(pools, fee, address) ==
    IF address # 0 THEN Append(pools, [fee |-> fee, address |-> address]) ELSE pools

\* the body of a successful pool-info response
PoolBody(pools) ==
    [status |-> 200, kind |-> "pools", pools_found |-> Len(pools), pools |-> pools]

\* factory_contract.functions.getPool(token, wbnb, fee).call() for the next
\* tier of the loop; after the last tier the body is returned
PoolLookup(ok, address) ==
    /\ r_pc = "pool_lookup"
    /\ r_trace' = Append(r_trace, [step |-> "getPool", ok |-> ok])
    /\ IF ~ok
         THEN /\ ReadRespond(ReadUnexpected)
              /\ UNCHANGED <<r_idx, r_lookups, r_pools>>
         ELSE /\ r_lookups' = Append(r_lookups,
                                     [fee |-> PoolFeeTiers[r_idx], address |-> address])
              /\ r_pools' = FoundPools(r_pools, PoolFeeTiers[r_idx], address)
              /\ IF r_idx = Len(PoolFeeTiers)
                   THEN /\ ReadRespond(PoolBody(
                                FoundPools(r_pools, PoolFeeTiers[r_idx], address)))
                        /\ UNCHANGED r_idx
                   ELSE /\ r_idx' = r_idx + 1
                        /\ UNCHANGED <<r_pc, r_resp>>
    /\ UNCHANGED <<ovars, qvars, router_abi, cvars, wvars, r_op>>

ReadNext ==
    \/ \E op \in {"token", "pool"} : ReadStart(op)
    \/ \E b \in BOOLEAN : ReadConnect(b)
    \/ \E ok \in BOOLEAN : TokenCall(ok)
    \/ \E ok \in BOOLEAN, address \in PoolAddresses : PoolLookup(ok, address)

SpecRead == Init /\ [][ReadNext]_vars

(***************************************************************************)
(* One request of any operation, served alone                              *)
(***************************************************************************)

\* no request has arrived yet
Idle == q_pc = "idle" /\ r_pc = "idle" /\ \A p \in Procs : w_pc[p] = "idle"

\* the steps of get_quote after the request arrived
QuoteStep ==
    \/ \E b \in BOOLEAN : QuoteEnvLog(b)
    \/ \E b \in BOOLEAN : QuoteEnvCheck(b)
    \/ \E ok \in BOOLEAN : QuoteEnvChainId(ok)
    \/ \E ok \in BOOLEAN : QuoteEnvBlock(ok)
    \/ QuoteValidate
    \/ \E b \in BOOLEAN : QuoteConnect(b)
    \/ \E ok \in BOOLEAN : QuoteNetTest(ok)
    \/ \E ok \in BOOLEAN : QuoteCall(ok)
    \/ \E b \in BOOLEAN : QuoteFailConnected(b)
    \/ \E b \in BOOLEAN : QuoteFailCheck(b)
    \/ \E ok \in BOOLEAN : QuoteFailChainId(ok)

\* the steps of get_token_info and get_pool_info after the request arrived
ReadStep ==
    \/ \E b \in BOOLEAN : ReadConnect(b)
    \/ \E ok \in BOOLEAN : TokenCall(ok)
    \/ \E ok \in BOOLEAN, address \in PoolAddresses : PoolLookup(ok, address)

OneNext ==
    \/ Idle /\ \E data \in QuoteRequests : QuoteStart(data)
    \/ QuoteStep
    \/ Idle /\ \E op \in {"token", "pool"} : ReadStart(op)
    \/ ReadStep
    \/ Idle /\ \E data \in ApproveRequests : WriteStart(1, "approve", data)
    \/ Idle /\ \E data \in SwapRequests : WriteStart(1, "swap", data)
    \/ WriteStep(1)
    \/ \E a \in Accounts : Mine(a)

SpecOne == Init /\ [][OneNext]_vars

\* each handler runs on a worker that keeps executing it, and each RPC call
\* returns or fails: a handler that can take a step eventually takes one
SpecOneFair ==
    /\ Init /\ [][OneNext]_vars
    /\ WF_vars(QuoteStep)
    /\ WF_vars(ReadStep)
    /\ WF_vars(WriteStep(1))

(***************************************************************************)
(* The mock application's swap handler (uniswap_simple.py), given the body *)
(* that is posted to the chain-backed swap handler                         *)
(***************************************************************************)

\* bodies naming each field, leaving it out, or giving it a zero value; the
\* minimum output under either of the two names the handlers read
CompareRequests ==
    {[NoData EXCEPT !.private_key = k, !.account_address = a, !.amount_in = m,
                    !.amount_out_min = o, !.amount_out_minimum = om, !.fee = f] :
        k \in {Missing, Str(0), Str(1)}, a \in {Missing, Str(0), Str(1)},
        m \in {Missing, Num(0), Num(1)}, o \in {Missing, Num(0), Num(1)},
        om \in {Missing, Num(0), Num(1)}, f \in {Missing, PyNone, Num(0), Num(2500)}}

\* fee = data.get('fee', 3000)
MockFeeOf(d) == Get(d, "fee", Num(MOCK_DEFAULT_FEE))

\* if not private_key or not account_address or not amount_in
\*    or amount_out_minimum is None
MockSwapRejects(d) ==
    \/ ~Truthy(Get(d, "private_key", PyNone))
    \/ ~Truthy(Get(d, "account_address", PyNone))
    \/ ~Truthy(Get(d, "amount_in", PyNone))
    \/ Get(d, "amount_out_minimum", PyNone).t = "none"

\* the mock handler as a whole: 400 on a rejected body, 500 when the
\* success body cannot be computed (fee/10000 with a null fee), 200 otherwise
MockSwap(p) ==
    /\ w_pc[p] # "idle"
    /\ w_op[p] = "swap"
    /\ m_resp = NoResponse
    /\ m_resp' = IF MockSwapRejects(w_data[p])
                   THEN [status |-> 400, kind |-> "validation"]
                   ELSE IF MockFeeOf(w_data[p]).t # "num"
                          THEN [status |-> 500, kind |-> "unexpected"]
                          ELSE [status |-> 200, kind |-> "sent"]
    /\ UNCHANGED <<served, qvars, rvars, router_abi, cvars, wvars>>

\* one body posted to both applications
MockNext ==
    \/ \E data \in CompareRequests : WriteStart(1, "swap", data)
    \/ WriteStep(1)
    \/ MockSwap(1)
    \/ \E a \in Accounts : Mine(a)

SpecMock == Init /\ [][MockNext]_vars

(***************************************************************************)
(* A sequence of requests served one after the other                       *)
(***************************************************************************)

\* return jsonify(...): the response leaves the handler, whose locals are
\* dropped; the handler is free for the next request
QuoteFinish ==
    /\ q_pc = "done"
    /\ served.quote + served.read < MaxServed
    /\ q_pc' = "idle"
    /\ q_data' = [amount_in |-> Missing, fee |-> Missing]
    /\ q_fee' = Missing
    /\ q_tiers' = <<>>
    /\ q_idx' = 0
    /\ q_rpc' = 0
    /\ q_trace' = <<>>
    /\ q_attempts' = <<>>
    /\ q_conn' = FALSE
    /\ q_resp' = NoResponse
    /\ served' = [served EXCEPT !.quote = @ + 1]
    /\ UNCHANGED <<m_resp, rvars, router_abi, cvars, wvars>>

\* the token-info or pool-info response was sent
ReadFinish ==
    /\ r_pc = "done"
    /\ served.quote + served.read < MaxServed
    /\ r_pc' = "idle"
    /\ r_op' = "none"
    /\ r_idx' = 0
    /\ r_trace' = <<>>
    /\ r_lookups' = <<>>
    /\ r_pools' = <<>>
    /\ r_resp' = NoResponse
    /\ served' = [served EXCEPT !.read = @ + 1]
    /\ UNCHANGED <<m_resp, qvars, router_abi, cvars, wvars>>

\* a request is being served
Busy == q_pc # "idle" \/ r_pc # "idle" \/ w_pc[1] \notin {"idle", "done"}

\* quote requests of a client that names an amount
SeqQuoteRequests ==
    [amount_in : {Num(0), Num(1)}, fee : {Missing, Num(3000)}]

\* any number of read-only requests, before and after one approve or swap
SeqNext ==
    \/ ~Busy /\ \E data \in SeqQuoteRequests : QuoteStart(data)
    \/ QuoteStep
    \/ QuoteFinish
    \/ ~Busy /\ \E op \in {"token", "pool"} : ReadStart(op)
    \/ ReadStep
    \/ ReadFinish
    \/ ~Busy /\ \E data \in OwnApproveRequests : WriteStart(1, "approve", data)
    \/ ~Busy /\ \E data \in OwnSwapRequests : WriteStart(1, "swap", data)
    \/ WriteStep(1)
    \/ \E a \in Accounts : Mine(a)

SpecSeq == Init /\ [][SeqNext]_vars

(***************************************************************************)
(* Properties of get_quote (checked under SpecQuote)                       *)
(***************************************************************************)

AttemptIdx == 1..Len(q_attempts)
AllTiersFailed ==
    /\ Len(q_attempts) = 5
    /\ \A i \in AttemptIdx : ~q_attempts[i].ok

\* C1: the quoter read calls follow the candidate list in order; the first
\* call that succeeds is the last call made, and the response is the result
\* of that tier, every earlier call having failed.
C1_FirstSuccessWins ==
    /\ \A i \in AttemptIdx : q_attempts[i].fee = q_tiers[i]
    /\ \A i \in AttemptIdx :
          q_attempts[i].ok =>
              /\ i = Len(q_attempts)
              /\ q_pc = "done"
              /\ q_resp.kind = "quote"
              /\ q_resp.fee = q_tiers[i]
    /\ q_resp.kind = "quote" =>
          /\ Len(q_attempts) >= 1
          /\ q_attempts[Len(q_attempts)].ok
          /\ \A i \in 1..(Len(q_attempts) - 1) : ~q_attempts[i].ok

\* a quote answered by the third candidate after two failed read calls
C1_Witness ==
    /\ q_pc = "done"
    /\ q_resp.kind = "quote"
    /\ Len(q_attempts) = 3
    /\ q_resp.fee = Num(FALLBACK_2)

\* C2: when the read call failed for every candidate tier, the response is
\* the no-liquidity error and its list is the sequence of tiers attempted.
C2_AllFailedListsAttempted ==
    (q_pc = "done" /\ AllTiersFailed) =>
        /\ q_resp.kind = "no_liquidity"
        /\ q_resp.fee_tiers_tried = [i \in AttemptIdx |-> q_attempts[i].fee]

\* amount_in <= 0: missing, null, zero or negative
NonPositive(x) == x.t \in {"missing", "none"} \/ (x.t = "num" /\ x.v <= 0)

\* C3: a quote request with amount_in <= 0 makes no call to the RPC endpoint
\* and ends with the validation error.
C3_RejectedBeforeAnyRpc ==
    (q_pc # "idle" /\ NonPositive(q_data.amount_in)) =>
        /\ q_rpc = 0
        /\ q_pc = "done" => q_resp.kind = "validation"

\* C8: when the read call failed for every candidate tier, the request ends
\* with the 400 no-liquidity failure, never with a 500 or a success.
C8_AllFailedIs400 ==
    (q_pc = "done" /\ AllTiersFailed) =>
        /\ q_resp.status = 400
        /\ q_resp.kind = "no_liquidity"

\* the tier the caller asked for, 10000 when the body names none
RequestedTier(data) == IF data.fee.t = "missing" THEN Num(10000) ELSE data.fee

\* C9: a successful quote reports as fee the tier of the read call that
\* succeeded, and has a note exactly when that tier is not the requested one.
C9_FeeUsedAndFallbackNote ==
    q_resp.kind = "quote" =>
        /\ Len(q_attempts) >= 1
        /\ q_attempts[Len(q_attempts)].ok
        /\ q_resp.fee = q_attempts[Len(q_attempts)].fee
        /\ (q_resp.note # "None") <=> (q_resp.fee # RequestedTier(q_data))

\* the scenario of the specification: fee 3000 requested, answered by 10000
C9_Witness ==
    /\ q_resp.kind = "quote"
    /\ q_data.fee = Num(3000)
    /\ q_resp.fee = Num(10000)
    /\ q_resp.note = "fallback"

(***************************************************************************)
(* Properties of approve_token and swap_token                              *)
(***************************************************************************)

Started(p) == w_op[p] # "none"
Terminal(p) == w_pc[p] = "done"
SameAccount(p, q) ==
    /\ Started(p) /\ Started(q)
    /\ w_data[p].account_address = w_data[q].account_address
\* the nonce is fetched and the broadcast has not returned
InSpan(p) == w_pc[p] \in {"router", "chain_id", "gas_price", "sign", "broadcast"}
BroadcastIssued(p) == w_sent[p] # "no"

\* C4: a swap fetches its nonce only when no approval of the same account
\* is still on its way to a terminal outcome (checked under SpecConc).
C4_SwapNonceAfterApproval ==
    [][\A p, q \in Procs :
          (/\ w_op[p] = "swap" /\ w_pc[p] = "nonce" /\ w_pc'[p] # "nonce"
           /\ w_op[q] = "approve" /\ SameAccount(p, q))
          => Terminal(q)]_vars

\* C5: an approve and a swap of one account, the swap arriving after the
\* approve was answered with its transaction hash, are broadcast with
\* different nonces (checked under SpecConc).
C5_SequentialNoncesDiffer ==
    \A p, q \in Procs :
        (/\ w_op[q] = "approve" /\ w_op[p] = "swap" /\ SameAccount(p, q)
         /\ q \in w_prior[p]
         /\ BroadcastIssued(p))
        => w_nonce[p] # w_nonce[q]

\* C6: two requests of one account never are both between nonce fetch and
\* broadcast, and never broadcast the same nonce (checked under SpecConc).
C6_WritesSerialized ==
    \A p, q \in Procs :
        (p # q /\ SameAccount(p, q)) =>
            /\ ~(InSpan(p) /\ InSpan(q))
            /\ (BroadcastIssued(p) /\ BroadcastIssued(q)) => w_nonce[p] # w_nonce[q]

\* C7: the handler's calldata is the direct exactInputSingle tuple; when the
\* router's ABI declares the command convention instead, the swap is never
\* signed or broadcast and ends with a failure (checked under SpecWrite).
C7_MismatchNeverSigned ==
    \A p \in Procs :
        (w_op[p] = "swap" /\ router_abi # "direct") =>
            /\ ~w_signed[p]
            /\ w_sent[p] = "no"
            /\ Terminal(p) => w_resp[p].status >= 400

\* a swap that fetched its nonce and was refused at the router lookup
C7_Witness ==
    \E p \in Procs :
        /\ w_op[p] = "swap" /\ router_abi = "command"
        /\ Terminal(p) /\ w_nonce[p] >= 0
        /\ w_resp[p].status = 500

RequiredFields(op) ==
    IF op = "approve"
      THEN {"private_key", "account_address", "amount"}
      ELSE {"private_key", "account_address", "amount_in", "amount_out_min", "fee"}
Absent(x) == x.t \in {"missing", "none"}

\* C10: an approve or swap request lacking a required field makes no call
\* to the chain (no connectivity check, nonce fetch, gas-price fetch,
\* signing or broadcast) and ends with the 400 validation error (checked
\* under SpecWrite).
C10_MissingFieldNeverReachesChain ==
    \A p \in Procs :
        (Started(p) /\ \E f \in RequiredFields(w_op[p]) : Absent(w_data[p][f])) =>
            /\ w_rpc[p] = 0
            /\ w_nonce[p] = -1
            /\ ~w_signed[p]
            /\ w_sent[p] = "no"
            /\ Terminal(p) =>
                  (w_resp[p].status = 400 /\ w_resp[p].kind = "validation")

\* an approve without amount and a swap without fee, both answered 400
C10_Witness ==
    \E p \in Procs :
        /\ Terminal(p) /\ w_resp[p].status = 400
        /\ \/ /\ w_op[p] = "approve"
              /\ w_data[p].private_key = Str(1) /\ w_data[p].account_address = Str(1)
              /\ w_data[p].amount = Missing
           \/ /\ w_op[p] = "swap"
              /\ w_data[p].private_key = Str(1) /\ w_data[p].account_address = Str(1)
              /\ w_data[p].amount_in = Num(1) /\ w_data[p].amount_out_min = Num(1)
              /\ w_data[p].fee = Missing

\* number of entries of a request's trace that are the given step
CountStep(t, step) == Cardinality({i \in 1..Len(t) : t[i].step = step})
StepNames(t) == [i \in 1..Len(t) |-> t[i].step]
IsPrefix(a, b) == Len(a) <= Len(b) /\ \A i \in 1..Len(a) : a[i] = b[i]

\* C11: when the signed object exposes the raw bytes under either accepted
\* name, those bytes are what the handler holds and hands to the node;
\* when it exposes neither, the request ends with the 500 signing-format
\* failure and no broadcast is issued (checked under SpecWrite).
C11_RawBytesUnderEitherName ==
    \A p \in Procs :
        w_signed[p] =>
            IF w_attrs[p] \cap {"rawTransaction", "raw_transaction"} # {}
              THEN /\ w_raw[p] = SignedTx(p)
                   /\ w_pc[p] = "broadcast" \/ BroadcastIssued(p)
                   /\ (w_sent[p] = "accepted" /\ c_mined[w_raw[p].from] <= w_raw[p].nonce)
                        => SignedTx(p) \in c_pool
              ELSE /\ Terminal(p)
                   /\ w_resp[p].status = 500 /\ w_resp[p].kind = "signing_format"
                   /\ w_sent[p] = "no"
                   /\ CountStep(w_trace[p], "broadcast") = 0

\* bytes found under the newer name only, accepted by the node
C11_Witness ==
    \E p \in Procs :
        /\ w_signed[p] /\ w_attrs[p] = {"raw_transaction"}
        /\ w_sent[p] = "accepted" /\ w_raw[p] \in c_pool

PipelineSteps(op) ==
    IF op = "approve"
      THEN <<"connect", "checksum", "nonce", "chain_id", "gas_price",
             "sign", "raw", "broadcast">>
      ELSE <<"connect", "checksum", "nonce", "router", "chain_id", "gas_price",
             "sign", "raw", "broadcast">>

\* C14: the steps of a write request occur in the order nonce fetch,
\* gas-price fetch, sign, broadcast; a broadcast follows a successful sign
\* and a sign a successful nonce and gas-price fetch of the same request;
\* a failed step is the last step and the request ends with a failure
\* (checked under SpecWrite).
C14_PipelineOrder ==
    \A p \in Procs :
        LET t == w_trace[p] IN
        /\ Started(p) => IsPrefix(StepNames(t), PipelineSteps(w_op[p]))
        /\ \A i \in 1..Len(t) :
              /\ t[i].step = "broadcast" =>
                    \E j \in 1..(i - 1) : t[j].step = "sign" /\ t[j].ok
              /\ t[i].step = "sign" =>
                    \E j, k \in 1..(i - 1) :
                        /\ j < k
                        /\ t[j].step = "nonce" /\ t[j].ok
                        /\ t[k].step = "gas_price" /\ t[k].ok
              /\ ~t[i].ok =>
                    /\ i = Len(t)
                    /\ Terminal(p)
                    /\ w_resp[p].status = 500

\* a swap whose gas-price fetch failed after its nonce fetch succeeded
C14_Witness ==
    \E p \in Procs :
        /\ w_op[p] = "swap" /\ Terminal(p)
        /\ Len(w_trace[p]) = 6
        /\ w_trace[p][6] = [step |-> "gas_price", ok |-> FALSE]

\* C17: a write request issues at most one nonce fetch, one sign and one
\* broadcast; when the node rejects the transaction the request ends with
\* a 500 and the broadcast is its last step (checked under SpecWrite).
C17_NoRetryAfterRejection ==
    \A p \in Procs :
        /\ CountStep(w_trace[p], "broadcast") <= 1
        /\ CountStep(w_trace[p], "nonce") <= 1
        /\ CountStep(w_trace[p], "sign") <= 1
        /\ w_sent[p] = "rejected" =>
              /\ Terminal(p)
              /\ w_resp[p].status = 500
              /\ w_trace[p][Len(w_trace[p])] = [step |-> "broadcast", ok |-> FALSE]

\* an approval the node rejected
C17_Witness ==
    \E p \in Procs :
        /\ w_op[p] = "approve" /\ w_sent[p] = "rejected" /\ Terminal(p)
        /\ CountStep(w_trace[p], "broadcast") = 1

\* C18: a swap request with every required field present and a minimum
\* output of 0 is not answered with the validation error
\* (checked under SpecWrite).
C18_ZeroMinimumAccepted ==
    \A p \in Procs :
        (/\ w_op[p] = "swap" /\ Terminal(p)
         /\ w_data[p].amount_out_min = Num(0)
         /\ \A f \in {"private_key", "account_address", "amount_in", "fee"} :
               Truthy(w_data[p][f]))
        => w_resp[p].kind # "validation"

\* C20: a transaction is signed only when the account whose nonce was
\* fetched is the account of the signing key (checked under SpecWrite).
C20_NonceOfSigner ==
    \A p \in Procs :
        w_signed[p] => SignerOf(w_data[p].private_key) = w_data[p].account_address.v

\* C15: once the fallback loop has started, a quote request that got no
\* successful read call ends only after every candidate tier was attempted;
\* no failure met while attempting a tier ends the pass early
\* (checked under SpecQuote).
C15_TierFailureNeverEndsPass ==
    (q_pc = "done" /\ q_idx >= 1 /\ \A i \in AttemptIdx : ~q_attempts[i].ok) =>
        Len(q_attempts) = Len(q_tiers)

\* C16: the candidate list starts with the preferred tier and no fee tier
\* is attempted twice within one quote pass (checked under SpecQuote).
C16_NoTierAttemptedTwice ==
    /\ q_tiers # <<>> => q_tiers[1] = q_fee
    /\ \A i, j \in AttemptIdx : i # j => q_attempts[i].fee # q_attempts[j].fee

\* number of entries of a pool list for the given fee tier
EntriesFor(pools, fee) == Cardinality({k \in 1..Len(pools) : pools[k].fee = fee})

\* C13: a pool-info response has exactly one entry for each known fee tier
\* whose registry lookup answered a non-zero address and none for any other
\* tier; a pool, which the registry holds under both token orderings, is
\* never listed twice (checked under SpecRead).
C13_OneEntryPerPool ==
    (r_op = "pool" /\ r_resp.kind = "pools") =>
        /\ Len(r_lookups) = Len(PoolFeeTiers)
        /\ \A i \in 1..Len(PoolFeeTiers) :
              /\ r_lookups[i].fee = PoolFeeTiers[i]
              /\ EntriesFor(r_resp.pools, PoolFeeTiers[i]) =
                    IF r_lookups[i].address # 0 THEN 1 ELSE 0
        /\ \A k \in 1..Len(r_resp.pools) :
              /\ r_resp.pools[k].address # 0
              /\ \E i \in 1..Len(r_lookups) :
                    /\ r_lookups[i].fee = r_resp.pools[k].fee
                    /\ r_lookups[i].address = r_resp.pools[k].address
        /\ r_resp.pools_found = Len(r_resp.pools)

\* a response listing the pools of two tiers, the other two having none
C13_Witness ==
    /\ r_op = "pool" /\ r_resp.kind = "pools"
    /\ Len(r_resp.pools) = 2
    /\ r_lookups[1].address = 0 /\ r_lookups[4].address # 0

\* a failed connectivity check is the last call of the request, which ends
\* with the 500 connectivity failure
ConnectFailureIsFinal(t, done, resp) ==
    \A i \in 1..Len(t) :
        (t[i].step = "connect" /\ ~t[i].ok) =>
            /\ i = Len(t)
            /\ done
            /\ resp.status = 500 /\ resp.kind = "connectivity"

\* C19: in token-info, pool-info, quote, approve and swap, when the
\* connectivity check of a request reports the endpoint unreachable the
\* request ends with the 500 connectivity failure and makes no further
\* chain call: no read call, nonce fetch, sign or broadcast, and no retry
\* (checked under SpecOne).
C19_UnreachableEndsRequest ==
    /\ ConnectFailureIsFinal(r_trace, r_pc = "done", r_resp)
    /\ ConnectFailureIsFinal(q_trace, q_pc = "done", q_resp)
    /\ q_resp.kind = "connectivity" => q_attempts = <<>>
    /\ r_resp.kind = "connectivity" => r_lookups = <<>>
    /\ \A p \in Procs :
          /\ ConnectFailureIsFinal(w_trace[p], Terminal(p), w_resp[p])
          /\ w_resp[p].kind = "connectivity" =>
                (w_nonce[p] = -1 /\ ~w_signed[p] /\ w_sent[p] = "no")

\* a pool-info request whose connectivity check failed
C19_Witness ==
    /\ r_op = "pool" /\ r_pc = "done"
    /\ r_trace = <<[step |-> "connect", ok |-> FALSE]>>
    /\ r_resp.status = 500

\* steps that only a write operation may take
WriteOnlySteps == {"nonce", "sign", "raw", "broadcast"}
NoWriteStepIn(t) == \A i \in 1..Len(t) : t[i].step \notin WriteOnlySteps
\* a step of get_token_info, get_pool_info or get_quote
ReadOnlyStepTaken ==
    \/ q_pc' # q_pc \/ q_trace' # q_trace
    \/ r_pc' # r_pc \/ r_trace' # r_trace

\* C21: token-info, pool-info and quote requests never fetch a nonce, sign
\* or broadcast, on any path; no step of theirs changes the transactions
\* submitted to the chain, whatever an earlier approve or swap submitted
\* (checked under SpecSeq).
C21_ReadOnlyOperations ==
    /\ [](NoWriteStepIn(q_trace) /\ NoWriteStepIn(r_trace))
    /\ [][ReadOnlyStepTaken => (c_pool' = c_pool /\ c_mined' = c_mined)]_vars

\* a pool-info request under way after an approval was submitted
C21_Witness ==
    /\ w_sent[1] = "accepted" /\ c_pool # {}
    /\ r_op = "pool" /\ r_pc = "pool_lookup" /\ r_idx = 3

\* C23: the chain-backed and the mock swap handler agree on validation: for
\* every body, one answers with the 400 validation error iff the other does
\* (checked under SpecMock).
C23_SwapValidationAgrees ==
    (w_pc[1] = "done" /\ m_resp # NoResponse) =>
        ((w_resp[1].kind = "validation") <=> (m_resp.kind = "validation"))

\* a response exists exactly when the handler has returned
AnsweredIffDone ==
    /\ (q_pc = "done") <=> (q_resp # NoResponse)
    /\ (r_pc = "done") <=> (r_resp # NoResponse)
    /\ (w_pc[1] = "done") <=> (w_resp[1] # NoResponse)
\* a response, once given, is not replaced
ResponseKept ==
    /\ q_resp # NoResponse => q_resp' = q_resp
    /\ r_resp # NoResponse => r_resp' = r_resp
    /\ w_resp[1] # NoResponse => w_resp'[1] = w_resp[1]

\* C22: provided each RPC call returns or fails, every request to any
\* operation ends with exactly one response, and a quote pass makes at most
\* as many quoter calls as the candidate list is long, which is five
\* (checked under SpecOneFair).
C22_EveryRequestAnsweredOnce ==
    /\ (q_pc # "idle") ~> (q_pc = "done")
    /\ (r_pc # "idle") ~> (r_pc = "done")
    /\ (w_pc[1] # "idle") ~> (w_pc[1] = "done")
    /\ [](AnsweredIffDone /\ Len(q_attempts) <= Len(q_tiers) /\ Len(q_tiers) \in {0, 5})
    /\ [][ResponseKept]_vars

\* a quote pass that went through the whole list and was then answered
C22_Witness ==
    /\ q_pc = "done" /\ q_resp.kind = "no_liquidity"
    /\ Len(q_attempts) = 5

====
